---- MODULE Spec2Model ----
(***************************************************************************)
(* A state-machine model of dkbscraper.DKBSession: one session object, its *)
(* attributes, the file system it writes to, and one action per method.    *)
(* Every action records the call's inputs, the events it caused (HTTP      *)
(* requests, credential prompt, close, file writes, pauses), its return    *)
(* value and the exception it raised, so that properties of a call are     *)
(* state predicates of the state the call leaves behind.                   *)
(***************************************************************************)
EXTENDS Integers, Sequences, FiniteSets, TLC

\* ------------------------------------------------------------------ bounds
MaxForms == 2      \* forms on one page
MaxGen == 2        \* distinct sets of navigation urls the server hands out
MaxRows == 2       \* rows of a postbox listing
MaxUrlLen == 3     \* characters of a document url
MaxDests == 2      \* length of a destination list
MaxTmp == 2        \* temporary files that may pile up
MaxAccounts == 2   \* options of the account selector

\* --------------------------------------------------------------- constants
Unset == "Unset"   \* an attribute that was never assigned (reading it raises)
None == "None"     \* Python's None: an element the parser did not find
NoError == "NoError"

base_url == "https://www.dkb.de"
login_url == "/-?$javascript=disabled"

\* base_url + path
Url(path) == base_url \o path

\* The values a method returns.
True == "True"
False == "False"
NoData == [n \in {} |-> ""]

\* The exceptions the methods raise, by the statement that raises them.
LoginFormNotFound == "RuntimeError: Login Form not found."
AuthenticationFailed == "RuntimeError: Login to DKB Online Banking failed."
NavigationLinkMissing == "TypeError/AttributeError: navigation anchor is None"
DownloadFailed == "RuntimeError: Download failed."
SelectionFormNotFound == "RuntimeError: Could not find selection forms."
AttributeUnset == "AttributeError: attribute was never assigned"
FieldMissing == "KeyError: No input element with that name"
RequestFailed == "requests.RequestException"
ElementMissing == "AttributeError/TypeError: element is None"
IOFailed == "OSError"

\* ------------------------------------------------------------------ events
Ev(kind, target, data) == [ev |-> kind, url |-> target, data |-> data]
HttpGet(path) == Ev("GET", Url(path), NoData)
HttpPost(path, data) == Ev("POST", Url(path), data)
GetPass == Ev("getpass", None, NoData)
Close == Ev("close", None, NoData)

IsRequest(e) == e.ev \in {"GET", "POST"}
Requests(l) == SelectSeq(l, IsRequest)
Count(l, kind) == Cardinality({i \in DOMAIN l : l[i].ev = kind})

\* ------------------------------------------------------------------- forms
\* A form is its field mapping (name -> value) and its action.
Form(names, action) == [fields |-> [n \in names |-> ""], action |-> action]
SearchForm == Form({"q"}, "/search")
LoginForm == Form({"j_username", "j_password"}, "/banking")
AltLoginForm == Form({"j_username", "j_password", "q"}, "/banking-alt")
UserOnlyForm == Form({"j_username"}, "/banking-old")
SelectForm ==
    Form({"slAllAccounts", "searchPeriodRadio", "transactionDate",
          "toTransactionDate"}, "/umsatz")
AltSelectForm ==
    Form({"slAllAccounts", "searchPeriodRadio", "transactionDate",
          "toTransactionDate", "q"}, "/umsatz-alt")

SeqsUpTo(S, n) == UNION {[1..k -> S] : k \in 0..n}

\* The login pages of the lifecycle runs, and those of the form-lookup runs.
FixtureLoginPages == {<<LoginForm>>, <<SearchForm>>}
LoginPages == SeqsUpTo({SearchForm, LoginForm, AltLoginForm, UserOnlyForm}, MaxForms)

\* The lookup with the else branch lost: when no form matches, the loop variable
\* still names the last form of the page and that form is used.
FirstFormWith_NoElse(forms, field) ==
    LET hits == {i \in DOMAIN forms : field \in DOMAIN forms[i].fields}
    IN  IF hits = {} THEN Len(forms) ELSE CHOOSE i \in hits : \A j \in hits : i <= j

\* The lookup without the break: the last matching form of the page is used.
FirstFormWith_LastMatch(forms, field) ==
    LET hits == {i \in DOMAIN forms : field \in DOMAIN forms[i].fields}
    IN  IF hits = {} THEN 0 ELSE CHOOSE i \in hits : \A j \in hits : i >= j

\* for i,f in enumerate(page.forms): if field in f.fields.keys(): break / else: raise
\* The index of the form the loop stops at, 0 when the else branch is taken.
FirstFormWith(forms, field) ==
    LET hits == {i \in DOMAIN forms : field \in DOMAIN forms[i].fields}
    IN  IF hits = {} THEN 0 ELSE CHOOSE i \in hits : \A j \in hits : i <= j

\* form.fields[name] = value : lxml sets the value of an existing input only.
HasField(form, name) == name \in DOMAIN form.fields
SetField(form, name, value) ==
    [form EXCEPT !.fields = [form.fields EXCEPT ![name] = value]]

\* -------------------------------------------------------- login responses
Gens == 1..MaxGen
Anchors == {"logout", "Postfach", "Umsaetze"}
NavUrl(anchor, g) == "/banking/" \o anchor \o "?s=" \o ToString(g)

\* The page the login POST answers with: whether the text 'Finanzstatus' is in
\* it, and the href of each of the three anchors (None: anchor not in the page).
LoginResponse(marker, g, present) ==
    [marker |-> marker,
     logout |-> IF "logout" \in present THEN NavUrl("logout", g) ELSE None,
     postbox |-> IF "Postfach" \in present THEN NavUrl("Postfach", g) ELSE None,
     umsatz |-> IF "Umsaetze" \in present THEN NavUrl("Umsaetze", g) ELSE None]
LoginResponses ==
    {LoginResponse(FALSE, 1, {})} \cup
    {LoginResponse(TRUE, g, p) : g \in Gens, p \in SUBSET Anchors}
FixtureLoginResponses ==
    {LoginResponse(FALSE, 1, {}), LoginResponse(TRUE, 1, Anchors),
     LoginResponse(TRUE, 1, {"logout", "Postfach"})}

Usernames == {"alice"}
Secrets == {"secret"}

VARIABLES
    logout_url, postbox_url, umsatz_url, \* self.logout_url, ... (Unset before login)
    accounts,                            \* self.accounts: [assigned, items]
    closed,                              \* self.s.close() was called
    fs,                                  \* the files that exist: path -> content
    tmpfiles,                            \* names of the temporary files that exist
    loggedIn,                            \* history: some login call returned True
    discovered,                          \* history: some get_banking_accounts call returned
    op, inp, ret, err, log               \* the last call: method, inputs, result, events

vars == <<logout_url, postbox_url, umsatz_url, accounts, closed, fs, tmpfiles,
          loggedIn, discovered, op, inp, ret, err, log>>

\* The end of a call: what it was given, what it did, what it gave back.
Return(method, input, events, value, error) ==
    /\ op' = method
    /\ inp' = input
    /\ log' = events
    /\ ret' = value
    /\ err' = error

\* ------------------------------------------------------------------- login
\* soup.find(text='Finanzstatus')
HasMarker(resp) == resp.marker

\* The assignments with the transactions anchor looked up leniently: a page
\* without it keeps the url the session had.
StoreNavigation_LenientUmsatz(resp) ==
    IF resp.logout = None
    THEN [err |-> NavigationLinkMissing, logout |-> logout_url,
          postbox |-> postbox_url, umsatz |-> umsatz_url]
    ELSE IF resp.postbox = None
    THEN [err |-> NavigationLinkMissing, logout |-> resp.logout,
          postbox |-> postbox_url, umsatz |-> umsatz_url]
    ELSE [err |-> NoError, logout |-> resp.logout, postbox |-> resp.postbox,
          umsatz |-> IF resp.umsatz = None THEN umsatz_url ELSE resp.umsatz]

\* Lines 94-96: the three assignments, in order; the first anchor that is not
\* found raises and the assignments before it stay.
StoreNavigation(resp) ==
    IF resp.logout = None
    THEN [err |-> NavigationLinkMissing, logout |-> logout_url,
          postbox |-> postbox_url, umsatz |-> umsatz_url]
    ELSE IF resp.postbox = None
    THEN [err |-> NavigationLinkMissing, logout |-> resp.logout,
          postbox |-> postbox_url, umsatz |-> umsatz_url]
    ELSE IF resp.umsatz = None
    THEN [err |-> NavigationLinkMissing, logout |-> resp.logout,
          postbox |-> resp.postbox, umsatz |-> umsatz_url]
    ELSE [err |-> NoError, logout |-> resp.logout,
          postbox |-> resp.postbox, umsatz |-> resp.umsatz]

\* Lines 79-80: the prompt is made before the password field is looked up.
LoginFill(form, username, secret) ==
    IF HasField(form, "j_password")
    THEN [err |-> NoError,
          form |-> SetField(SetField(form, "j_username", username), "j_password", secret)]
    ELSE [err |-> FieldMissing, form |-> SetField(form, "j_username", username)]

\* What login does once the login page is there: the events after the GET and
\* whether the POST is to be sent.
LoginLookup(forms) == FirstFormWith(forms, "j_username")

LoginFrame == UNCHANGED <<accounts, closed, fs, tmpfiles, discovered>>
LoginFails(input, events, error) ==
    /\ Return("login", input, events, None, error)
    /\ UNCHANGED <<logout_url, postbox_url, umsatz_url, loggedIn>>
    /\ LoginFrame

NoResponse == [marker |-> FALSE, logout |-> None, postbox |-> None, umsatz |-> None]

login(username, Pages, Responses) ==
    \E forms \in Pages, getOk \in BOOLEAN, secret \in Secrets :
        LET get == HttpGet(login_url)
            i == LoginLookup(forms)
            in0 == [username |-> username, fetched |-> TRUE, forms |-> forms,
                    answered |-> FALSE, resp |-> NoResponse]
        IN  IF ~getOk
            THEN LoginFails([in0 EXCEPT !.fetched = FALSE, !.forms = <<>>], <<get>>,
                            RequestFailed)
            ELSE IF i = 0 THEN LoginFails(in0, <<get>>, LoginFormNotFound)
            ELSE
              LET filled == LoginFill(forms[i], username, secret)
                  post == HttpPost(filled.form.action, filled.form.fields)
              IN  IF filled.err # NoError
                  THEN LoginFails(in0, <<get, GetPass>>, filled.err)
                  ELSE \E postOk \in BOOLEAN, resp \in Responses :
                    LET in1 == [in0 EXCEPT !.answered = TRUE, !.resp = resp]
                        nav == StoreNavigation(resp)
                    IN  IF ~postOk
                        THEN LoginFails(in0, <<get, GetPass, post>>, RequestFailed)
                        ELSE IF ~HasMarker(resp)
                        THEN LoginFails(in1, <<get, GetPass, post>>, AuthenticationFailed)
                        ELSE /\ logout_url' = nav.logout
                             /\ postbox_url' = nav.postbox
                             /\ umsatz_url' = nav.umsatz
                             /\ loggedIn' = (loggedIn \/ nav.err = NoError)
                             /\ Return("login", in1, <<get, GetPass, post>>,
                                       IF nav.err = NoError THEN True ELSE None, nav.err)
                             /\ LoginFrame

\* ------------------------------------------------------------------ logout
Statuses == {200, 500}

\* Lines 111-115: the GET, then the close, then the return.
LogoutAfterGet(status) ==
    [log |-> <<HttpGet(logout_url), Close>>, closed |-> TRUE,
     ret |-> IF status = 200 THEN True ELSE False]

logout ==
    \E getOk \in BOOLEAN, status \in Statuses :
        /\ IF logout_url = Unset
           THEN /\ Return("logout", [sent |-> FALSE, answered |-> FALSE, status |-> 0],
                          <<>>, None, AttributeUnset)
                /\ closed' = closed
           ELSE IF ~getOk
           THEN /\ Return("logout", [sent |-> TRUE, answered |-> FALSE, status |-> 0],
                          <<HttpGet(logout_url)>>, None, RequestFailed)
                /\ closed' = closed
           ELSE LET r == LogoutAfterGet(status)
                IN  /\ Return("logout", [sent |-> TRUE, answered |-> TRUE, status |-> status],
                              r.log, r.ret, NoError)
                    /\ closed' = r.closed
        /\ UNCHANGED <<logout_url, postbox_url, umsatz_url, accounts, fs, tmpfiles,
                       loggedIn, discovered>>

\* ----------------------------------------------------------- postbox_items
\* Strings the code takes apart are sequences of characters.
RECURSIVE Join(_)
Join(chars) == IF chars = <<>> THEN "" ELSE Head(chars) \o Join(Tail(chars))

\* s.split(c)[-1]: what follows the last c (all of s when c is not in it).
AfterLast(s, c) ==
    LET at == {i \in DOMAIN s : s[i] = c}
    IN  IF at = {} THEN s
        ELSE SubSeq(s, (CHOOSE i \in at : \A j \in at : j <= i) + 1, Len(s))

\* s.split(c)[0]: what precedes the first c (all of s when c is not in it).
BeforeFirst(s, c) ==
    LET at == {i \in DOMAIN s : s[i] = c}
    IN  IF at = {} THEN s
        ELSE SubSeq(s, 1, (CHOOSE i \in at : \A j \in at : i <= j) - 1)

\* url.split('/')[-1].split('?')[0] + '.pdf'
Filename(url) == BeforeFirst(AfterLast(url, "/"), "?") \o <<".pdf">>

\* A row of the documents table: whether the title cell holds a <strong>, the
\* text of the title link (None: no title cell or no link in it), whether the
\* row has a 'Speichern' element whose parent carries an href, and that href.
Row(strong, title, save, url) ==
    [strong |-> strong, title |-> title, save |-> save, url |-> url]
WellFormed(row) == row.title # None /\ row.save

PostboxDocument(title, is_read, url, filename) ==
    [title |-> title, is_read |-> is_read, url |-> url, filename |-> filename]

\* Lines 134-151, for one row.
RowDocument(row) ==
    PostboxDocument(row.title, ~row.strong, row.url, Filename(row.url))

\* The iteration that passes over a row it cannot read.
RECURSIVE PostboxRows_SkipMalformed(_)
PostboxRows_SkipMalformed(rows) ==
    IF rows = <<>> THEN [records |-> <<>>, err |-> NoError]
    ELSE LET rest == PostboxRows_SkipMalformed(Tail(rows))
         IN  IF ~WellFormed(Head(rows)) THEN rest
             ELSE [records |-> <<RowDocument(Head(rows))>> \o rest.records,
                   err |-> rest.err]

\* Lines 132-151: the records yielded up to the first row that raises.
RECURSIVE PostboxRows(_)
PostboxRows(rows) ==
    IF rows = <<>> THEN [records |-> <<>>, err |-> NoError]
    ELSE IF ~WellFormed(Head(rows)) THEN [records |-> <<>>, err |-> ElementMissing]
    ELSE LET rest == PostboxRows(Tail(rows))
         IN  [records |-> <<RowDocument(Head(rows))>> \o rest.records, err |-> rest.err]

UrlChars == {"/", "?", "a"}
FixtureUrl == <<"/", "d", "/", "a", "?", "x">>
FixtureRows ==
    {Row(FALSE, "Kontoauszug", TRUE, FixtureUrl), Row(TRUE, "Mitteilung", TRUE, FixtureUrl)}
\* The listing of the lifecycle runs, and those of the listing runs.
FixtureListings == {[table |-> TRUE, rows |-> <<r>>] : r \in FixtureRows}
\* The sequences of up to n well-formed rows whose urls have at most `budget`
\* characters between them.
RECURSIVE RowSeqs(_, _)
RowSeqs(n, budget) ==
    IF n = 0 THEN {<<>>}
    ELSE {<<>>} \cup
         UNION {{<<Row(s, "Kontoauszug", TRUE, u)>> \o rest :
                    rest \in RowSeqs(n - 1, budget - Len(u))} :
                s \in BOOLEAN, u \in SeqsUpTo(UrlChars, budget)}
\* The listings of the listing runs, and the page without the documents table.
Listings ==
    {[table |-> FALSE, rows |-> <<>>]} \cup
    {[table |-> TRUE, rows |-> rows] : rows \in RowSeqs(MaxRows, MaxUrlLen)}

\* The rows of the malformed-row runs: with or without <strong>, with or
\* without the title link, with or without the save link.
RowKinds ==
    {Row(s, t, v, FixtureUrl) :
        s \in BOOLEAN, t \in {None, "Kontoauszug", "Mitteilung"}, v \in BOOLEAN}
RowListings == {[table |-> TRUE, rows |-> rows] : rows \in SeqsUpTo(RowKinds, MaxRows)}

\* The whole iteration of the generator, as list(dkbs.postbox_items()) runs it.
postbox_items(Pages) ==
    /\ IF postbox_url = Unset
       THEN Return("postbox_items", [answered |-> FALSE, table |-> FALSE, rows |-> <<>>],
                   <<>>, <<>>, AttributeUnset)
       ELSE \E getOk \in BOOLEAN, page \in Pages :
            LET get == HttpGet(postbox_url)
                res == PostboxRows(page.rows)
            IN  IF ~getOk
                THEN Return("postbox_items",
                            [answered |-> FALSE, table |-> FALSE, rows |-> <<>>],
                            <<get>>, <<>>, RequestFailed)
                ELSE IF ~page.table
                THEN Return("postbox_items",
                            [answered |-> TRUE, table |-> FALSE, rows |-> <<>>],
                            <<get>>, <<>>, ElementMissing)
                ELSE Return("postbox_items",
                            [answered |-> TRUE, table |-> TRUE, rows |-> page.rows],
                            <<get>>, res.records, res.err)
    /\ UNCHANGED <<logout_url, postbox_url, umsatz_url, accounts, closed, fs, tmpfiles,
                   loggedIn, discovered>>

\* ------------------------------------------------------- download_document
Exists(files, path) == path \in DOMAIN files
WriteFile(files, path, content) ==
    [q \in DOMAIN files \cup {path} |-> IF q = path THEN content ELSE files[q]]

TmpNames == 1..MaxTmp
TmpName == CHOOSE n \in TmpNames : n \notin tmpfiles /\ \A m \in TmpNames \ tmpfiles : n <= m

\* Lines 177-185: the loop over the destinations. A destination that exists is
\* reported and skipped; copyfile to a path that cannot be written raises, and
\* the exception leaves the loop and the method.
RECURSIVE CopyToDestinations(_, _, _, _)
CopyToDestinations(dests, files, content, unwritable) ==
    IF dests = <<>> THEN [fs |-> files, log |-> <<>>, err |-> NoError]
    ELSE LET dest == Head(dests)
         IN  IF Exists(files, dest)
             THEN LET rest == CopyToDestinations(Tail(dests), files, content, unwritable)
                  IN  [rest EXCEPT !.log = <<Ev("exists", dest, NoData)>> \o rest.log]
             ELSE IF dest \in unwritable
             THEN [fs |-> files, log |-> <<Ev("copyfile", dest, NoData)>>, err |-> IOFailed]
             ELSE LET rest == CopyToDestinations(Tail(dests),
                                  WriteFile(files, dest, content), content, unwritable)
                  IN  [rest EXCEPT !.log = <<Ev("copyfile", dest, NoData)>> \o rest.log]

\* Lines 171-190, once the response is there with status 200: the temporary
\* file, the streaming into it, the destinations, the unlink.
DownloadAfterGet(dests, content, streamOk, unwritable) ==
    LET made == <<Ev("tmpfile", ToString(TmpName), NoData)>>
        copy == CopyToDestinations(dests, fs, content, unwritable)
    IN  IF ~streamOk
        THEN [fs |-> fs, tmp |-> tmpfiles \cup {TmpName}, log |-> made,
              ret |-> None, err |-> RequestFailed]
        ELSE IF copy.err # NoError
        THEN [fs |-> copy.fs, tmp |-> tmpfiles \cup {TmpName}, log |-> made \o copy.log,
              ret |-> None, err |-> copy.err]
        ELSE [fs |-> copy.fs, tmp |-> tmpfiles,
              log |-> made \o copy.log \o <<Ev("unlink", ToString(TmpName), NoData)>>,
              ret |-> True, err |-> NoError]

Paths == {"a.pdf", "b.pdf"}
Contents == {"%PDF-1", "%PDF-2"}
FixtureDocument == RowDocument(Row(FALSE, "Kontoauszug", TRUE, FixtureUrl))
Documents == {FixtureDocument}
FixtureDestinations == {<<"a.pdf">>}
Destinations == SeqsUpTo(Paths, MaxDests)

DownloadFrame ==
    UNCHANGED <<logout_url, postbox_url, umsatz_url, accounts, closed, loggedIn, discovered>>
DownloadInput(document, dests, stage, content, unwritable) ==
    [document |-> document, destinations |-> dests, stage |-> stage,
     content |-> content, unwritable |-> unwritable]

download_document(document, destinations, Bodies, Unwritables, Streams) ==
    /\ tmpfiles # TmpNames
    /\ \E getOk \in BOOLEAN, status \in Statuses :
        LET get == Ev("GET", Url(Join(document.url)), NoData)
        IN  IF ~getOk
            THEN /\ Return("download_document",
                           DownloadInput(document, destinations, "get", "", {}),
                           <<get>>, None, RequestFailed)
                 /\ UNCHANGED <<fs, tmpfiles>>
            ELSE IF status # 200
            THEN /\ Return("download_document",
                           DownloadInput(document, destinations, "status", "", {}),
                           <<get>>, None, DownloadFailed)
                 /\ UNCHANGED <<fs, tmpfiles>>
            ELSE \E content \in Bodies, streamOk \in Streams, unwritable \in Unwritables :
                 LET r == DownloadAfterGet(destinations, content, streamOk, unwritable)
                 IN  /\ \/ streamOk
                        \/ unwritable = {}
                     /\ Return("download_document",
                               DownloadInput(document, destinations,
                                   IF streamOk THEN "copy" ELSE "stream", content,
                                   unwritable),
                               <<get>> \o r.log, r.ret, r.err)
                     /\ fs' = r.fs
                     /\ tmpfiles' = r.tmp
    /\ DownloadFrame

\* ---------------------------------------------------- get_banking_accounts
\* self.accounts is a dict: its items in insertion order, keys unique.
NoAccounts == [assigned |-> FALSE, items |-> <<>>]
EmptyDict == [assigned |-> TRUE, items |-> <<>>]
Keys(items) == {items[i].key : i \in DOMAIN items}
DictSet(items, key, name) ==
    IF key \in Keys(items)
    THEN [i \in DOMAIN items |->
            IF items[i].key = key THEN [key |-> key, name |-> name] ELSE items[i]]
    ELSE Append(items, [key |-> key, name |-> name])

\* Lines 203-204: one assignment per option of the selector.
RECURSIVE CollectOptions(_, _)
CollectOptions(options, items) ==
    IF options = <<>> THEN items
    ELSE CollectOptions(Tail(options),
                        DictSet(items, Head(options).value, Head(options).text))

\* Lines 201-204, the page being there: self.accounts = {} comes before the
\* selector is used.
Discover(page) ==
    IF ~page.found
    THEN [accounts |-> EmptyDict, err |-> ElementMissing]
    ELSE [accounts |-> [assigned |-> TRUE, items |-> CollectOptions(page.options, <<>>)],
          err |-> NoError]

\* Display names are sequences of words; 'PayPal' in name.
AccountKeys == {"10", "20"}
Girokonto == <<"Girokonto">>
PayPalKonto == <<"PayPal", "Konto">>
AccountNames == {Girokonto, PayPalKonto}
Option(value, text) == [value |-> value, text |-> text]
Selector(found, options) == [found |-> found, options |-> options]
FixtureSelectors ==
    {Selector(FALSE, <<>>), Selector(TRUE, <<Option("10", Girokonto)>>)}
Selectors ==
    {Selector(FALSE, <<>>)} \cup
    {Selector(TRUE, o) :
        o \in SeqsUpTo({Option(k, n) : k \in AccountKeys, n \in AccountNames}, MaxAccounts)}

get_banking_accounts(Pages) ==
    /\ IF umsatz_url = Unset
       THEN /\ Return("get_banking_accounts",
                      [answered |-> FALSE, page |-> Selector(FALSE, <<>>)],
                      <<>>, None, AttributeUnset)
            /\ accounts' = accounts
            /\ discovered' = discovered
       ELSE \E getOk \in BOOLEAN, page \in Pages :
            LET get == HttpGet(umsatz_url)
                found == Discover(page)
            IN  IF ~getOk
                THEN /\ Return("get_banking_accounts",
                               [answered |-> FALSE, page |-> Selector(FALSE, <<>>)],
                               <<get>>, None, RequestFailed)
                     /\ accounts' = accounts
                     /\ discovered' = discovered
                ELSE /\ Return("get_banking_accounts", [answered |-> TRUE, page |-> page],
                               <<get>>, None, found.err)
                     /\ accounts' = found.accounts
                     /\ discovered' = (discovered \/ found.err = NoError)
    /\ UNCHANGED <<logout_url, postbox_url, umsatz_url, closed, fs, tmpfiles, loggedIn>>

\* ------------------------------------ get_all_banking_account_transactions
Date(y, m, d) == [y |-> y, m |-> m, d |-> d]
Before(a, b) ==
    \/ a.y < b.y
    \/ a.y = b.y /\ a.m < b.m
    \/ a.y = b.y /\ a.m = b.m /\ a.d < b.d
Dates == {Date(2020, 1, 2), Date(2020, 2, 1)}

\* date.strftime("%d.%m.%Y")
TwoDigits(n) == IF n < 10 THEN "0" \o ToString(n) ELSE ToString(n)
strftime(date) == TwoDigits(date.d) \o "." \o TwoDigits(date.m) \o "." \o ToString(date.y)

\* The name without the account key.
CsvPath_NoKey(destination, key, start_date_str, end_date_str) ==
    destination \o "ac_" \o start_date_str \o "_to_" \o end_date_str \o ".csv"

\* destination+"ac%s_%s_to_%s.csv"%(o, start_date_str, end_date_str)
CsvPath(destination, key, start_date_str, end_date_str) ==
    destination \o "ac" \o key \o "_" \o start_date_str \o "_to_" \o end_date_str \o ".csv"

\* The test as an equality: only the name that is the marker is skipped.
IsPayPal_WholeName(name) == name = <<"PayPal">>

\* 'PayPal' in self.accounts[o]
IsPayPal(name) == \E i \in DOMAIN name : name[i] = "PayPal"

RateLimitPause == 5
Sleep == Ev("sleep", ToString(RateLimitPause), NoData)
CsvUrl(key) == "/banking/csv?ac=" \o key

\* Lines 231-234: the four fields, in order; lxml sets existing inputs only.
ExportFields ==
    <<"slAllAccounts", "searchPeriodRadio", "transactionDate", "toTransactionDate">>
ExportFill(form, key, start_date_str, end_date_str) ==
    IF \E i \in DOMAIN ExportFields : ~HasField(form, ExportFields[i])
    THEN [err |-> FieldMissing, form |-> form]
    ELSE [err |-> NoError,
          form |-> SetField(SetField(SetField(SetField(form,
                       "slAllAccounts", key), "searchPeriodRadio", "1"),
                       "transactionDate", start_date_str),
                       "toTransactionDate", end_date_str)]

\* What goes wrong in a run: nothing (at = 0), or for the account at position
\* `at` the POST fails, the answer has no csvExport anchor, or the GET fails.
NoTrouble == [at |-> 0, how |-> "none"]
Troubles ==
    {NoTrouble} \cup
    {[at |-> k, how |-> h] : k \in 1..MaxAccounts, h \in {"post", "nolink", "csv"}}
CsvBodies == {"csv-1", "csv-2"}

\* The loop that gives up on an account without an export link and goes on
\* with the next one.
RECURSIVE ExportLoop_SkipFailed(_, _, _, _, _, _, _, _, _)
ExportLoop_SkipFailed(items, n, form, files, start_date_str, end_date_str, destination, trouble, body) ==
    IF n > Len(items) THEN [fs |-> files, log |-> <<>>, err |-> NoError]
    ELSE
      LET o == items[n].key
          hit(how) == trouble.at = n /\ trouble.how = how
          filled == ExportFill(form, o, start_date_str, end_date_str)
          post == HttpPost(filled.form.action, filled.form.fields)
          get == HttpGet(CsvUrl(o))
          path == CsvPath(destination, o, start_date_str, end_date_str)
          written == WriteFile(files, path, body)
          skipped == ExportLoop_SkipFailed(items, n + 1, filled.form, files, start_date_str,
                                           end_date_str, destination, trouble, body)
          rest == ExportLoop_SkipFailed(items, n + 1, filled.form, written, start_date_str,
                                        end_date_str, destination, trouble, body)
      IN  IF IsPayPal(items[n].name)
          THEN [skipped EXCEPT !.log = <<Sleep>> \o skipped.log]
          ELSE IF hit("post") \/ hit("nolink")
          THEN [skipped EXCEPT !.log = <<post, Sleep>> \o skipped.log]
          ELSE IF hit("csv")
          THEN [skipped EXCEPT !.log = <<post, get, Sleep>> \o skipped.log]
          ELSE [rest EXCEPT !.log =
                    <<post, get, Ev("write", path, NoData), Sleep>> \o rest.log]

\* Lines 229-255: the loop over the accounts, from position n on, with the one
\* form found before the loop.
RECURSIVE ExportLoop(_, _, _, _, _, _, _, _, _)
ExportLoop(items, n, form, files, start_date_str, end_date_str, destination, trouble, body) ==
    IF n > Len(items) THEN [fs |-> files, log |-> <<>>, err |-> NoError]
    ELSE
      LET o == items[n].key
          hit(how) == trouble.at = n /\ trouble.how = how
          filled == ExportFill(form, o, start_date_str, end_date_str)
          post == HttpPost(filled.form.action, filled.form.fields)
          get == HttpGet(CsvUrl(o))
          path == CsvPath(destination, o, start_date_str, end_date_str)
          written == WriteFile(files, path, body)
      IN  IF IsPayPal(items[n].name)
          THEN LET rest == ExportLoop(items, n + 1, form, files, start_date_str,
                                      end_date_str, destination, trouble, body)
               IN  [rest EXCEPT !.log = <<Sleep>> \o rest.log]
          ELSE IF filled.err # NoError
          THEN [fs |-> files, log |-> <<>>, err |-> filled.err]
          ELSE IF hit("post")
          THEN [fs |-> files, log |-> <<post>>, err |-> RequestFailed]
          ELSE IF hit("nolink")
          THEN [fs |-> files, log |-> <<post>>, err |-> ElementMissing]
          ELSE IF hit("csv")
          THEN [fs |-> files, log |-> <<post, get>>, err |-> RequestFailed]
          ELSE LET rest == ExportLoop(items, n + 1, filled.form, written, start_date_str,
                                      end_date_str, destination, trouble, body)
               IN  [rest EXCEPT !.log =
                        <<post, get, Ev("write", path, NoData), Sleep>> \o rest.log]

FixtureSelectPages == {<<SelectForm>>, <<SearchForm>>}
BareSelectForm == Form({"slAllAccounts"}, "/umsatz-old")
SelectPages ==
    SeqsUpTo({SearchForm, SelectForm, AltSelectForm, BareSelectForm}, MaxForms)
Directories == {"./"}
\* The directories of the repeated runs: the default and another one.
RerunDirectories == {"./", "csv/"}

\* What a call was given: its arguments, whether the transactions page was
\* fetched and its forms, what went wrong and the body of the csv answers.
ExportInput(start_date, end_date, destination, forms, trouble) ==
    [start_date |-> start_date, end_date |-> end_date, destination |-> destination,
     fetched |-> FALSE, forms |-> forms, trouble |-> trouble, body |-> ""]

get_all_banking_account_transactions(start_date, end_date, destination, Pages, Trouble, Bodies) ==
    /\ IF umsatz_url = Unset
       THEN /\ Return("get_all_banking_account_transactions",
                      ExportInput(start_date, end_date, destination, <<>>, NoTrouble),
                      <<>>, None, AttributeUnset)
            /\ fs' = fs
       ELSE \E getOk \in BOOLEAN, forms \in Pages :
            LET get == HttpGet(umsatz_url)
                i == FirstFormWith(forms, "slAllAccounts")
                in0 == [ExportInput(start_date, end_date, destination, forms, NoTrouble)
                           EXCEPT !.fetched = TRUE]
            IN  IF ~getOk
                THEN /\ Return("get_all_banking_account_transactions",
                               ExportInput(start_date, end_date, destination, <<>>, NoTrouble),
                               <<get>>, None, RequestFailed)
                     /\ fs' = fs
                ELSE IF i = 0
                THEN /\ Return("get_all_banking_account_transactions", in0,
                               <<get>>, None, SelectionFormNotFound)
                     /\ fs' = fs
                ELSE IF ~accounts.assigned
                THEN /\ Return("get_all_banking_account_transactions", in0,
                               <<get>>, None, AttributeUnset)
                     /\ fs' = fs
                ELSE \E trouble \in Trouble, body \in Bodies :
                     LET r == ExportLoop(accounts.items, 1, forms[i], fs,
                                         strftime(start_date), strftime(end_date),
                                         destination, trouble, body)
                     IN  /\ trouble.at <= Len(accounts.items)
                         /\ Return("get_all_banking_account_transactions",
                                   [in0 EXCEPT !.trouble = trouble, !.body = body],
                                   <<get>> \o r.log, None, r.err)
                         /\ fs' = r.fs
    /\ UNCHANGED <<logout_url, postbox_url, umsatz_url, accounts, closed, tmpfiles, loggedIn,
                   discovered>>

\* ----------------------------------------------------------- specification
NoFiles == [p \in {} |-> ""]

Init ==
    /\ logout_url = Unset
    /\ postbox_url = Unset
    /\ umsatz_url = Unset
    /\ accounts = NoAccounts
    /\ closed = FALSE
    /\ fs = NoFiles
    /\ tmpfiles = {}
    /\ loggedIn = FALSE
    /\ discovered = FALSE
    /\ op = "__init__"
    /\ inp = None
    /\ ret = None
    /\ err = NoError
    /\ log = <<>>

Next ==
    \/ \E username \in Usernames :
            login(username, FixtureLoginPages, FixtureLoginResponses)
    \/ logout
    \/ postbox_items(FixtureListings)
    \/ \E d \in Documents, dests \in FixtureDestinations :
            download_document(d, dests, {"%PDF-1"}, {{}}, {TRUE})
    \/ get_banking_accounts(FixtureSelectors)
    \/ \E start_date \in Dates, end_date \in Dates, destination \in Directories :
            get_all_banking_account_transactions(start_date, end_date, destination,
                FixtureSelectPages, {NoTrouble}, {"csv-1"})

Spec == Init /\ [][Next]_vars

NextLogin ==
    \/ \E username \in Usernames : login(username, LoginPages, FixtureLoginResponses)
    \/ logout

SpecLogin == Init /\ [][NextLogin]_vars

NextNav ==
    \/ \E username \in Usernames : login(username, FixtureLoginPages, LoginResponses)
    \/ logout

SpecNav == Init /\ [][NextNav]_vars

\* Runs that list the postbox after each login.
NextPostbox ==
    \/ \E username \in Usernames :
            login(username, {<<LoginForm>>}, {LoginResponse(TRUE, 1, Anchors)})
    \/ op = "login" /\ postbox_items(Listings)

SpecPostbox == Init /\ [][NextPostbox]_vars

NextDownload ==
    \E d \in Documents, dests \in Destinations :
        download_document(d, dests, Contents, SUBSET Paths, BOOLEAN)

SpecDownload == Init /\ [][NextDownload]_vars

NextExport ==
    \/ \E username \in Usernames :
            login(username, {<<LoginForm>>}, {LoginResponse(TRUE, 1, Anchors)})
    \/ get_banking_accounts(Selectors)
    \/ \E start_date \in Dates, destination \in Directories :
        \E end_date \in Dates \ {start_date} :
            get_all_banking_account_transactions(start_date, end_date, destination,
                FixtureSelectPages, Troubles, {"csv-1"})

SpecExport == Init /\ [][NextExport]_vars

\* Runs over login pages and transactions pages of every form layout.
NextForms ==
    \/ \E username \in Usernames : login(username, LoginPages, FixtureLoginResponses)
    \/ get_banking_accounts(FixtureSelectors)
    \/ \E destination \in Directories :
            get_all_banking_account_transactions(Date(2020, 1, 2), Date(2020, 2, 1),
                destination, SelectPages, {NoTrouble}, {"csv-1"})

SpecForms == Init /\ [][NextForms]_vars

\* Runs that list a postbox with rows of every kind after each login.
NextRows ==
    \/ \E username \in Usernames :
            login(username, {<<LoginForm>>}, {LoginResponse(TRUE, 1, Anchors)})
    \/ op = "login" /\ postbox_items(RowListings)

SpecRows == Init /\ [][NextRows]_vars

\* Runs that export after a discovery and then export again with the arguments
\* of the run before, the bank answering the repeated run with a new body.
NextRerun ==
    \/ \E username \in Usernames :
            login(username, {<<LoginForm>>}, {LoginResponse(TRUE, 1, Anchors)})
    \/ get_banking_accounts(Selectors)
    \/ /\ op = "get_banking_accounts"
       /\ \E destination \in RerunDirectories :
            get_all_banking_account_transactions(Date(2020, 1, 2), Date(2020, 2, 1),
                destination, {<<SelectForm>>}, {NoTrouble}, {"csv-1"})
    \/ /\ op = "get_all_banking_account_transactions"
       /\ err = NoError
       /\ get_all_banking_account_transactions(inp.start_date, inp.end_date,
                inp.destination, {<<SelectForm>>}, {NoTrouble}, {"csv-2"})

SpecRerun == Init /\ [][NextRerun]_vars

\* ------------------------------------------------------------------ claims
Consumers ==
    {"postbox_items", "download_document", "get_banking_accounts",
     "get_all_banking_account_transactions"}

\* C1: none of postbox_items, download_document, get_banking_accounts and
\* get_all_banking_account_transactions issues an HTTP request unless an
\* earlier login on the session has succeeded.
C1_NoRequestBeforeLogin ==
    (op \in Consumers /\ Requests(log) # <<>>) => loggedIn

HasUsernameForm(forms) == \E i \in DOMAIN forms : "j_username" \in DOMAIN forms[i].fields

\* C2: when the login page was fetched and none of its forms has the field
\* j_username, login raises 'Login Form not found.' without prompting for the
\* password and without a POST; when a form has it and the POST is answered by
\* a page without 'Finanzstatus', login raises 'Login to DKB Online Banking
\* failed.' and does not return True.
C2_LoginFormAndMarker ==
    (op = "login" /\ inp.fetched) =>
        /\ ~HasUsernameForm(inp.forms) =>
              /\ err = LoginFormNotFound
              /\ ret # True
              /\ Count(log, "getpass") = 0
              /\ Count(log, "POST") = 0
        /\ (HasUsernameForm(inp.forms) /\ inp.answered /\ ~inp.resp.marker) =>
              /\ err = AuthenticationFailed
              /\ ret # True
C2_Witness ==
    /\ op = "login"
    /\ inp.fetched
    /\ Len(inp.forms) = 2
    /\ ~HasUsernameForm(inp.forms)
    /\ err = LoginFormNotFound
    /\ Len(log) = 1

AnchorAbsent(resp) == resp.logout = None \/ resp.postbox = None \/ resp.umsatz = None
AllStored == logout_url # Unset /\ postbox_url # Unset /\ umsatz_url # Unset

\* C3: login returns True only when the answer to the POST holds all three
\* anchors and their hrefs are stored as logout_url, postbox_url and
\* umsatz_url; when the page has the marker but one of the anchors is absent,
\* login raises, does not return True, and a session that did not hold all
\* three urls before the call does not hold all three after it.
C3_LoginNeedsAllAnchors ==
    [][op' = "login" =>
        /\ ret' = True =>
              /\ ~AnchorAbsent(inp'.resp)
              /\ logout_url' = inp'.resp.logout
              /\ postbox_url' = inp'.resp.postbox
              /\ umsatz_url' = inp'.resp.umsatz
        /\ (inp'.answered /\ inp'.resp.marker /\ AnchorAbsent(inp'.resp)) =>
              /\ err' = NavigationLinkMissing
              /\ ret' # True
              /\ AllStored' => AllStored]_vars
C3_Witness ==
    /\ op = "login"
    /\ inp.answered
    /\ inp.resp.marker
    /\ inp.resp.logout # None
    /\ inp.resp.postbox # None
    /\ inp.resp.umsatz = None
    /\ err = NavigationLinkMissing
    /\ postbox_url = inp.resp.postbox
    /\ ~AllStored

\* C4: logout returns True iff the status of the GET to the stored logout url
\* is success, and on every exit path of a logout that sent the GET (success
\* status, other status, failing GET) the client is closed when logout ends.
C4_LogoutClosesClient ==
    (op = "logout" /\ inp.sent) =>
        /\ closed
        /\ Count(log, "close") = 1
        /\ ret = True <=> (inp.answered /\ inp.status = 200)

\* C5: after a logout the session is destroyed: logout_url, postbox_url and
\* umsatz_url are cleared and the client is closed, and the operation that
\* follows the logout sends no request to a url of the ended login.
C5_LogoutDestroysSession ==
    [][/\ (op' = "logout" /\ err' = NoError) =>
              /\ closed'
              /\ logout_url' = Unset
              /\ postbox_url' = Unset
              /\ umsatz_url' = Unset
       /\ (op = "logout" /\ err = NoError /\ op' \in Consumers \ {"download_document"}) =>
              Requests(log') = <<>>]_vars

LastPathSegment(url) == AfterLast(BeforeFirst(url, "?"), "/")

\* C6: for a listing page of N well-formed rows postbox_items yields N records
\* in row order, each with a non-empty title, the row's url, a filename equal
\* to the last path segment of the url with the query string stripped plus
\* '.pdf', and is_read true exactly when the title cell has no <strong>.
C6_ListingRecords ==
    (/\ op = "postbox_items"
     /\ inp.answered
     /\ inp.table
     /\ \A i \in DOMAIN inp.rows : WellFormed(inp.rows[i])) =>
        /\ err = NoError
        /\ Len(ret) = Len(inp.rows)
        /\ \A i \in DOMAIN inp.rows :
              /\ ret[i].title = inp.rows[i].title
              /\ ret[i].title # ""
              /\ ret[i].url = inp.rows[i].url
              /\ ret[i].filename = LastPathSegment(inp.rows[i].url) \o <<".pdf">>
              /\ ret[i].is_read = ~inp.rows[i].strong

\* C7: a run of download_document never changes the bytes of a file that
\* existed before the run, and when the document was downloaded every
\* destination that was absent before the run and can be written holds
\* exactly the downloaded bytes after it.
C7_DownloadIdempotent ==
    [][op' = "download_document" =>
        /\ \A p \in DOMAIN fs : p \in DOMAIN fs' /\ fs'[p] = fs[p]
        /\ inp'.stage = "copy" =>
              \A i \in DOMAIN inp'.destinations :
                  LET dest == inp'.destinations[i]
                  IN  (dest \notin DOMAIN fs /\ dest \notin inp'.unwritable) =>
                          (dest \in DOMAIN fs' /\ fs'[dest] = inp'.content)]_vars

\* C8: the temporary file download_document creates does not exist when the
\* call ends, whether it returns, fails while streaming or fails while copying.
C8_TemporaryFileRemoved ==
    op = "download_document" =>
        \A i \in DOMAIN log :
            log[i].ev = "tmpfile" => \A n \in tmpfiles : ToString(n) # log[i].url

\* C9: when the document was downloaded, a destination that cannot be written
\* does not end the fan-out: every destination of the list is processed
\* (copied to or skipped) and the call returns True.
C9_FanOutContinues ==
    (op = "download_document" /\ inp.stage = "copy") =>
        /\ ret = True
        /\ Count(log, "copyfile") + Count(log, "exists") = Len(inp.destinations)

InvalidDateRange == "InvalidDateRange"

\* C10: on a logged-in session get_all_banking_account_transactions called
\* with start_date later than end_date fails with InvalidDateRange, having sent
\* no HTTP request and written no file.
C10_InvalidDateRange ==
    (/\ op = "get_all_banking_account_transactions"
     /\ loggedIn
     /\ Before(inp.end_date, inp.start_date)) =>
        /\ err = InvalidDateRange
        /\ Requests(log) = <<>>
        /\ Count(log, "write") = 0

\* C11: on a logged-in session where no get_banking_accounts call has ever
\* returned, get_all_banking_account_transactions fails: it does not end
\* without an error, it writes no file and it leaves self.accounts as it was
\* (it does not run the discovery itself).
C11_ExportNeedsDiscovery ==
    [][(op' = "get_all_banking_account_transactions" /\ loggedIn' /\ ~discovered') =>
        /\ err' # NoError
        /\ Count(log', "write") = 0
        /\ accounts' = accounts]_vars

Export == "get_all_banking_account_transactions"
Excluded(account) == \E i \in DOMAIN account.name : account.name[i] = "PayPal"
Kept(account) == ~Excluded(account)
NonExcluded(items) == SelectSeq(items, Kept)
IsPost(e) == e.ev = "POST"
IsGet(e) == e.ev = "GET"
IsWrite(e) == e.ev = "write"
Posts(l) == SelectSeq(l, IsPost)
Gets(l) == SelectSeq(l, IsGet)
Writes(l) == SelectSeq(l, IsWrite)
ExportFile(key) ==
    CsvPath(inp.destination, key, strftime(inp.start_date), strftime(inp.end_date))

\* C12: an export that ends without an error has, for the accounts whose name
\* does not contain 'PayPal' and in their order, one selection POST, one export
\* GET and one written file each, the file being there afterwards; nothing is
\* posted, fetched or written for an account whose name contains 'PayPal'.
C12_ExportExactlyNonExcluded ==
    (op = Export /\ err = NoError) =>
        LET kept == NonExcluded(accounts.items)
        IN  /\ Len(Posts(log)) = Len(kept)
            /\ Len(Gets(log)) = Len(kept) + 1
            /\ Len(Writes(log)) = Len(kept)
            /\ \A i \in DOMAIN kept :
                /\ Posts(log)[i].data["slAllAccounts"] = kept[i].key
                /\ Gets(log)[i + 1].url = Url(CsvUrl(kept[i].key))
                /\ Writes(log)[i].url = ExportFile(kept[i].key)
                /\ Exists(fs, ExportFile(kept[i].key))
                /\ fs[ExportFile(kept[i].key)] = inp.body

C12_Witness ==
    /\ op = Export
    /\ err = NoError
    /\ Len(accounts.items) = 2
    /\ Excluded(accounts.items[1])
    /\ Kept(accounts.items[2])
    /\ Len(Writes(log)) = 1

\* C13: in a run of get_all_banking_account_transactions the pause is not
\* applied for a skipped account: there are at most as many pauses as exported
\* accounts (files written).
C13_NoPauseForSkipped ==
    op = "get_all_banking_account_transactions" =>
        Count(log, "sleep") <= Count(log, "write")

\* C14: every POST of a run of get_all_banking_account_transactions comes
\* directly after the GET of the transactions page its form was taken from,
\* with no other request in between.
C14_FormFetchedPerAccount ==
    op = "get_all_banking_account_transactions" =>
        \A i \in DOMAIN Requests(log) :
            Requests(log)[i].ev = "POST" =>
                (i > 1 /\ Requests(log)[i - 1] = HttpGet(umsatz_url))

\* The position of the account a run's trouble struck, 0 when it struck none
\* (no trouble, or trouble at an account that is skipped).
StruckAt(trouble, items) ==
    IF trouble.at > 0 /\ Kept(items[trouble.at]) THEN trouble.at ELSE 0
Struck == StruckAt(inp.trouble, accounts.items)
KeysBefore(items, n) == {items[i].key : i \in {j \in 1..(n - 1) : Kept(items[j])}}
WrittenPaths(l) == {Writes(l)[i].url : i \in DOMAIN Writes(l)}
PostedKeys(l) == {Posts(l)[i].data["slAllAccounts"] : i \in DOMAIN Posts(l)}

\* C15: an export whose page has no selection form raises without a POST and
\* without touching a file; an export in which the request or the export link of
\* one account fails raises, has written exactly the files of the non-PayPal
\* accounts before that one, which are there afterwards with the answer's body,
\* posts for no later account, ends with the failing request, and leaves every
\* other file as it was.
C15_ExportFailureIsFatal ==
    [][(op' = Export /\ inp'.fetched) =>
        LET found == FirstFormWith(inp'.forms, "slAllAccounts")
            n == StruckAt(inp'.trouble, accounts.items)
            before == KeysBefore(accounts.items, n)
        IN  /\ accounts' = accounts
            /\ found = 0 =>
                  /\ err' = SelectionFormNotFound
                  /\ Len(Posts(log')) = 0
                  /\ fs' = fs
            /\ (found # 0 /\ accounts.assigned /\ n # 0) =>
                  /\ err' # NoError
                  /\ WrittenPaths(log') = {ExportFile(k)' : k \in before}
                  /\ PostedKeys(log') \subseteq before \cup {accounts.items[n].key}
                  /\ log'[Len(log')].ev \in {"POST", "GET"}
                  /\ DOMAIN fs' = DOMAIN fs \cup WrittenPaths(log')
                  /\ \A p \in DOMAIN fs' :
                        fs'[p] = IF p \in WrittenPaths(log') THEN inp'.body ELSE fs[p]]_vars

C15_Witness ==
    /\ op = Export
    /\ inp.fetched
    /\ Struck = 2
    /\ Kept(accounts.items[1])
    /\ accounts.items[1].key # accounts.items[2].key
    /\ err # NoError
    /\ Len(Writes(log)) = 1

\* DD.MM.YYYY and the file name, written out from the format.
Pad(n, width) ==
    IF width = 4 /\ n < 10 THEN "000" \o ToString(n)
    ELSE IF width = 4 /\ n < 100 THEN "00" \o ToString(n)
    ELSE IF width = 4 /\ n < 1000 THEN "0" \o ToString(n)
    ELSE IF width = 2 /\ n < 10 THEN "0" \o ToString(n)
    ELSE ToString(n)
DDMMYYYY(date) == Pad(date.d, 2) \o "." \o Pad(date.m, 2) \o "." \o Pad(date.y, 4)
CsvName(key, start_date, end_date) ==
    "ac" \o key \o "_" \o DDMMYYYY(start_date) \o "_to_" \o DDMMYYYY(end_date) \o ".csv"
SameArguments ==
    /\ inp'.start_date = inp.start_date
    /\ inp'.end_date = inp.end_date
    /\ inp'.destination = inp.destination

Malformed(row) == row.title = None \/ ~row.save
FirstMalformed(rows) ==
    CHOOSE k \in DOMAIN rows :
        Malformed(rows[k]) /\ \A j \in 1..(k - 1) : ~Malformed(rows[j])

\* C17: when a row of the listing lacks its title link or its save link,
\* postbox_items yields one record for each row before the first such row, in
\* row order, and then raises; it yields nothing for that row or a later one.
C17_MalformedRowStops ==
    (/\ op = "postbox_items"
     /\ inp.answered
     /\ inp.table
     /\ \E i \in DOMAIN inp.rows : Malformed(inp.rows[i])) =>
        LET k == FirstMalformed(inp.rows)
        IN  /\ err # NoError
            /\ Len(ret) = k - 1
            /\ \A i \in 1..(k - 1) :
                  /\ ret[i].title = inp.rows[i].title
                  /\ ret[i].url = inp.rows[i].url
                  /\ ret[i].is_read = ~inp.rows[i].strong

C17_Witness ==
    /\ op = "postbox_items"
    /\ inp.answered
    /\ inp.table
    /\ Len(inp.rows) = 2
    /\ ~Malformed(inp.rows[1])
    /\ Malformed(inp.rows[2])
    /\ Len(ret) = 1
    /\ err # NoError

Has(form, field) == field \in DOMAIN form.fields
IsFirstWith(forms, k, field) ==
    /\ k \in DOMAIN forms
    /\ Has(forms[k], field)
    /\ \A j \in 1..(k - 1) : ~Has(forms[j], field)
NoFormWith(forms, field) == \A j \in DOMAIN forms : ~Has(forms[j], field)
PostsGoTo(k) == \A i \in DOMAIN Posts(log) : Posts(log)[i].url = Url(inp.forms[k].action)

\* C18: when login or the export has fetched its page, a page none of whose
\* forms has the required field (j_username, slAllAccounts) makes the call
\* raise its form-not-found error without a POST; otherwise every POST of the
\* call goes to the action of the first form in document order that has the
\* field, a later form with the field being used only when no earlier one has it,
\* and a first matching form that lacks another field is not replaced by a later
\* one: the call raises without a POST.
C18_FirstMatchingForm ==
    /\ (op = "login" /\ inp.fetched) =>
          /\ NoFormWith(inp.forms, "j_username") =>
                err = LoginFormNotFound /\ Posts(log) = <<>>
          /\ \A k \in DOMAIN inp.forms : IsFirstWith(inp.forms, k, "j_username") =>
                /\ err # LoginFormNotFound
                /\ PostsGoTo(k)
                /\ Has(inp.forms[k], "j_password") => Len(Posts(log)) = 1
                /\ ~Has(inp.forms[k], "j_password") => Posts(log) = <<>>
    /\ (op = Export /\ inp.fetched) =>
          /\ NoFormWith(inp.forms, "slAllAccounts") =>
                err = SelectionFormNotFound /\ Posts(log) = <<>>
          /\ \A k \in DOMAIN inp.forms : IsFirstWith(inp.forms, k, "slAllAccounts") =>
                /\ err # SelectionFormNotFound
                /\ PostsGoTo(k)
                /\ (accounts.assigned /\ Has(inp.forms[k], "transactionDate")) =>
                      Len(Posts(log)) = Len(NonExcluded(accounts.items))
                /\ ~Has(inp.forms[k], "transactionDate") => Posts(log) = <<>>

\* An export over a page with two selection forms, posted to the first.
C18_Witness ==
    /\ op = Export
    /\ inp.fetched
    /\ inp.forms = <<AltSelectForm, SelectForm>>
    /\ Len(Posts(log)) = 1
    /\ Posts(log)[1].url = Url("/umsatz-alt")

NoneStored == logout_url = Unset /\ postbox_url = Unset /\ umsatz_url = Unset

\* C19: a login that raises leaves logout_url, postbox_url and umsatz_url as
\* they were before the call, and the three are only ever set together: never
\* some of them stored and another one not.
C19_FailedLoginKeepsUrls ==
    [][op' = "login" =>
        /\ AllStored' \/ NoneStored'
        /\ err' # NoError =>
              /\ logout_url' = logout_url
              /\ postbox_url' = postbox_url
              /\ umsatz_url' = umsatz_url]_vars

\* C20: a get_banking_accounts call that raises because the page has no
\* slAllAccounts element leaves self.accounts as it was before the call.
C20_FailedDiscoveryKeepsAccounts ==
    [][(op' = "get_banking_accounts" /\ inp'.answered /\ ~inp'.page.found) =>
        /\ err' = ElementMissing
        /\ accounts' = accounts]_vars
====
